---------------------------- MODULE Spec2Model ----------------------------
(***************************************************************************)
(* ushionn::nn::DenseLayer (src/src/layers/layers.cpp): the graph builder  *)
(* of an affine layer (forward, backward), its parameter accessors and     *)
(* its host-side normal initializer, as a state machine.                   *)
(*                                                                         *)
(* State: the layer's members, the cudnn-frontend graph under              *)
(* construction (its tensor attributes, held by reference, and its         *)
(* operation nodes), the host buffer behind weights_, and the last call    *)
(* with what it returned.                                                  *)
(***************************************************************************)
EXTENDS Integers, Sequences, FiniteSets, TLC

(***************************************************************************)
(* Bounds of the model.                                                    *)
(***************************************************************************)
MaxFeat == 2      \* in_features, out_features range over 1..MaxFeat
MaxLead == 1      \* leading batch dimensions in front of [rows, features]
MaxOps  == 8      \* operation nodes the graph may come to hold

LeadSizes == {2}          \* sizes a leading batch dimension takes
RowSizes  == {2, 3}       \* sizes of the row dimension of the input
SeedHigh  == {0, 1}       \* upper 32 bits of the unsigned long long seed
SeedLow   == {1, 2}       \* lower 32 bits of the unsigned long long seed

DataTypes       == {"FLOAT", "DOUBLE", "INT32", "HALF"}   \* fe::DataType_t
WeightDataTypes == {"FLOAT", "DOUBLE", "INT32"}
NullRef == 0

VARIABLES
    layer,     \* DenseLayer members: name_, data_type_, weights_, bias_, weights_grad_, bias_grad_
    attrs,     \* fe::graph::Tensor_attributes objects, by reference (index)
    ops,       \* operation nodes of the graph, in emission order
    hostbuf,   \* host memory behind weights_, in 4-byte words
    caller,    \* references the orchestrator holds: x, dy, and the shape x was made with
    last       \* the last call on the layer: its arguments and result

vars == <<layer, attrs, ops, hostbuf, caller, last>>

(***************************************************************************)
(* Shapes.                                                                 *)
(***************************************************************************)
RECURSIVE SeqsUpTo(_, _)
SeqsUpTo(S, n) ==
    IF n = 0 THEN {<<>>}
    ELSE LET shorter == SeqsUpTo(S, n - 1)
         IN  shorter \cup {Append(s, e) : s \in shorter, e \in S}

Front(s) == SubSeq(s, 1, Len(s) - 1)
Last(s)  == s[Len(s)]

RECURSIVE Product(_)
Product(s) == IF s = <<>> THEN 1 ELSE s[1] * Product(Tail(s))

Max(a, b) == IF a >= b THEN a ELSE b

\* SwapLastTwo with the wrong index: the first dimension swapped with the last
SwapFirstLast(shape) ==
    LET n == Len(shape)
    IN  [i \in 1..n |-> IF i = n THEN shape[1]
                        ELSE IF i = 1 THEN shape[n]
                        ELSE shape[i]]

\* std::swap(shape[size - 1], shape[size - 2])
SwapLastTwo(shape) ==
    LET n == Len(shape)
    IN  [i \in 1..n |-> IF i = n THEN shape[n - 1]
                        ELSE IF i = n - 1 THEN shape[n]
                        ELSE shape[i]]


(***************************************************************************)
(* ushionn::Tensor, as the layer uses it.                                  *)
(***************************************************************************)
\* A Tensor member of the layer: its name, shape, element type, location.
Tensor(name, shape, dt, host) ==
    [name |-> name, shape |-> shape, data_type |-> dt, on_host |-> host]

\* Tensor::get_num_elements
get_num_elements(t) == Product(t.shape)

\* Tensor::create_graph_tensor_attributes(graph): a new Tensor_attributes
\* carrying the tensor's name, shape and element type, not virtual.
create_graph_tensor_attributes(t) ==
    [name |-> t.name, dim |-> t.shape, is_virtual |-> FALSE, data_type |-> t.data_type]

\* 4-byte words one element of a type takes in host memory.
WordsPerElem(dt) == IF dt = "DOUBLE" THEN 2 ELSE 1

\* The layer after construction: weights [in, out], bias [out], gradients alike.
DenseLayer(name, in, out, dt, wdt, host) ==
    [name_         |-> name,
     data_type_    |-> dt,
     weights_      |-> Tensor(name \o "_weights", <<in, out>>, wdt, host),
     bias_         |-> Tensor(name \o "_bias", <<out>>, wdt, host),
     weights_grad_ |-> Tensor(name \o "_weights_grad", <<in, out>>, wdt, host),
     bias_grad_    |-> Tensor(name \o "_bias_grad", <<out>>, wdt, host)]

\* A word of host memory no initializer has written yet.
Unwritten == [value |-> [type |-> "none", gen |-> 0, k |-> 0], part |-> 0]

\* Host memory as allocated.
FreshBuffer(t) == [w \in 1..(get_num_elements(t) * WordsPerElem(t.data_type)) |-> Unwritten]

(***************************************************************************)
(* The graph library's shape rules (cudnn frontend), applied to the        *)
(* operands' dimensions as they stand when the result is looked at.        *)
(***************************************************************************)
\* Leading (batch) dimensions of two operands, broadcast from the right.
BroadcastDims(a, b) ==
    LET n == Max(Len(a), Len(b))
        at(s, i) == IF i + Len(s) - n >= 1 THEN s[i + Len(s) - n] ELSE 1
    IN  [i \in 1..n |-> Max(at(a, i), at(b, i))]

\* graph->matmul: [..., m, k] x [..., k, n] -> [..., m, n]
MatmulDim(a, b) ==
    BroadcastDims(SubSeq(a, 1, Len(a) - 2), SubSeq(b, 1, Len(b) - 2))
        \o <<a[Len(a) - 1], b[Len(b)]>>

\* graph->pointwise: the operands' dimensions broadcast against each other
PointwiseDim(a, b) == BroadcastDims(a, b)

\* graph->reduction: the result keeps the operand's rank, a reduced dimension
\* becoming 1; with no output dimensions set by the caller every dimension
\* is reduced
ReductionDim(a) == [i \in 1..Len(a) |-> 1]

\* Tensor_attributes::get_dim once the graph has inferred what was left
\* unset: a result's dimensions follow from its producer's operands as they
\* are in the attribute store as_ at that time.
RECURSIVE DimIn(_, _, _)
DimIn(as_, os_, id) ==
    IF as_[id].dim # <<>> \/ ~(\E i \in 1..Len(os_) : os_[i].out = id) THEN as_[id].dim
    ELSE LET op == os_[CHOOSE i \in 1..Len(os_) : os_[i].out = id]
         IN  CASE op.kind = "matmul" ->
                      MatmulDim(DimIn(as_, os_, op.a), DimIn(as_, os_, op.b))
               [] op.kind = "pointwise" ->
                      PointwiseDim(DimIn(as_, os_, op.a), DimIn(as_, os_, op.b))
               [] op.kind = "reduction" ->
                      ReductionDim(DimIn(as_, os_, op.a))

Dim(id) == DimIn(attrs, ops, id)

(***************************************************************************)
(* Construction: a layer, and a graph holding the caller's two tensors,    *)
(* the forward input x and the output gradient dy.                         *)
(***************************************************************************)
Init ==
    \E in \in 1..MaxFeat, out \in 1..MaxFeat, rows \in RowSizes,
       lead \in SeqsUpTo(LeadSizes, MaxLead),
       dt \in DataTypes, wdt \in WeightDataTypes, host \in BOOLEAN :
        /\ layer = DenseLayer("dense", in, out, dt, wdt, host)
        /\ attrs = << [name |-> "x", dim |-> lead \o <<rows, in>>,
                       is_virtual |-> FALSE, data_type |-> dt],
                      [name |-> "dy", dim |-> lead \o <<rows, out>>,
                       is_virtual |-> FALSE, data_type |-> dt] >>
        /\ ops = <<>>
        /\ hostbuf = FreshBuffer(DenseLayer("dense", in, out, dt, wdt, host).weights_)
        /\ caller = [x |-> 1, dy |-> 2, x_dim |-> lead \o <<rows, in>>]
        /\ last = [op |-> "constructor"]

(***************************************************************************)
(* DenseLayer::add_forward_to_graph                                        *)
(***************************************************************************)
\* FwdMatmulOut with the weight's own storage type kept on the result
FwdMatmulOut_WeightType(l) ==
    [name |-> l.name_ \o "_weights_matmul_out", dim |-> <<>>,
     is_virtual |-> TRUE, data_type |-> l.weights_.data_type]

\* the matmul result as lines 23-25 leave it
FwdMatmulOut(l) ==
    [name |-> l.name_ \o "_weights_matmul_out", dim |-> <<>>,
     is_virtual |-> TRUE, data_type |-> l.data_type_]

\* the pointwise result as line 30 leaves it
FwdBiasAddOut(l) ==
    [name |-> l.name_ \o "_bias_add_out", dim |-> <<>>,
     is_virtual |-> TRUE, data_type |-> l.data_type_]

\* ForwardOps with the addition applied to the layer input, not to the matmul result
ForwardOps_AddOnInput(l, input, wa, ba, mm, out) ==
    << [kind |-> "matmul", a |-> input, b |-> wa, out |-> mm,
        mode |-> "", compute_data_type |-> l.weights_.data_type],
       [kind |-> "pointwise", a |-> input, b |-> ba, out |-> out,
        mode |-> "ADD", compute_data_type |-> l.bias_.data_type] >>

\* the two nodes the call emits: matmul(input, weights), then ADD(matmul out, bias)
ForwardOps(l, input, wa, ba, mm, out) ==
    << [kind |-> "matmul", a |-> input, b |-> wa, out |-> mm,
        mode |-> "", compute_data_type |-> l.weights_.data_type],
       [kind |-> "pointwise", a |-> mm, b |-> ba, out |-> out,
        mode |-> "ADD", compute_data_type |-> l.bias_.data_type] >>

add_forward_to_graph(input) ==
    LET n  == Len(attrs)
        wa == n + 1
        ba == n + 2
        mm == n + 3
        out == n + 4
    IN  /\ Len(ops) <= MaxOps - 2
        /\ attrs' = attrs \o << create_graph_tensor_attributes(layer.weights_),
                                create_graph_tensor_attributes(layer.bias_),
                                FwdMatmulOut(layer),
                                FwdBiasAddOut(layer) >>
        /\ ops' = ops \o ForwardOps(layer, input, wa, ba, mm, out)
        /\ last' = [op |-> "add_forward_to_graph", input |-> input,
                    weights_attr |-> wa, bias_attr |-> ba, matmul_out |-> mm, ret |-> out]
        /\ UNCHANGED <<layer, hostbuf, caller>>

(***************************************************************************)
(* DenseLayer::add_backward_to_graph                                       *)
(***************************************************************************)
\* the forward input after lines 47-52: last two dimensions swapped in place
BwdInputTransposed(l, a) ==
    [a EXCEPT !.dim = SwapLastTwo(a.dim), !.is_virtual = TRUE, !.data_type = l.data_type_]

\* BwdWeightsTransposed with the swap of lines 72-74 left out
BwdWeights_NotTransposed(l) ==
    [create_graph_tensor_attributes(l.weights_) EXCEPT
        !.is_virtual = TRUE, !.data_type = l.data_type_]

\* the weight attribute of lines 71-76: created from weights_, then transposed
BwdWeightsTransposed(l) ==
    [create_graph_tensor_attributes(l.weights_) EXCEPT
        !.dim = SwapLastTwo(create_graph_tensor_attributes(l.weights_).dim),
        !.is_virtual = TRUE, !.data_type = l.data_type_]

\* a result of the call as lines 56-58, 68 and 80 leave it
BwdResult(l, suffix) ==
    [name |-> l.name_ \o suffix, dim |-> <<>>, is_virtual |-> TRUE, data_type |-> l.data_type_]

\* BackwardOps with the input-gradient matmul fed the weight-gradient result
BackwardOps_ChainedOnWeightGrad(l, dy, x, wg_attr, wg, bg_attr, bg, wt, out) ==
    << [kind |-> "matmul", a |-> x, b |-> dy, out |-> wg,
        mode |-> "", compute_data_type |-> l.weights_grad_.data_type],
       [kind |-> "reduction", a |-> dy, b |-> NullRef, out |-> bg,
        mode |-> "ADD", compute_data_type |-> l.bias_grad_.data_type],
       [kind |-> "matmul", a |-> dy, b |-> wg, out |-> out,
        mode |-> "", compute_data_type |-> l.weights_grad_.data_type] >>

\* the three nodes the call emits (lines 55, 67, 79)
BackwardOps(l, dy, x, wg_attr, wg, bg_attr, bg, wt, out) ==
    << [kind |-> "matmul", a |-> x, b |-> dy, out |-> wg,
        mode |-> "", compute_data_type |-> l.weights_grad_.data_type],
       [kind |-> "reduction", a |-> dy, b |-> NullRef, out |-> bg,
        mode |-> "ADD", compute_data_type |-> l.bias_grad_.data_type],
       [kind |-> "matmul", a |-> dy, b |-> wt, out |-> out,
        mode |-> "", compute_data_type |-> l.weights_grad_.data_type] >>

\* the forward outputs the orchestrator may pass as fwd_output_tensor_ref
FwdOutputRefs ==
    {NullRef} \cup {i \in 1..Len(attrs) : attrs[i].name = layer.name_ \o "_bias_add_out"}

add_backward_to_graph(output_grad, fwd_input, fwd_output) ==
    LET n       == Len(attrs)
        wg_attr == n + 1      \* weights_grad_.create_graph_tensor_attributes (line 44)
        wg      == n + 2      \* result of the weight-gradient matmul (line 55)
        bg_attr == n + 3      \* bias_grad_.create_graph_tensor_attributes (line 64)
        bg      == n + 4      \* result of the reduction (line 67)
        wt      == n + 5      \* weights_.create_graph_tensor_attributes (line 71)
        out     == n + 6      \* result of the input-gradient matmul (line 79)
    IN  /\ Len(ops) <= MaxOps - 3
        /\ attrs' = [attrs EXCEPT ![fwd_input] = BwdInputTransposed(layer, attrs[fwd_input])]
                    \o << create_graph_tensor_attributes(layer.weights_grad_),
                          BwdResult(layer, "_weights_matmul_out_bwd"),
                          create_graph_tensor_attributes(layer.bias_grad_),
                          BwdResult(layer, "_bias_add_out_bwd"),
                          BwdWeightsTransposed(layer),
                          BwdResult(layer, "_output_bwd") >>
        /\ ops' = ops \o BackwardOps(layer, output_grad, fwd_input, wg_attr, wg, bg_attr, bg, wt, out)
        /\ last' = [op |-> "add_backward_to_graph", output_grad |-> output_grad,
                    fwd_input |-> fwd_input, fwd_output |-> fwd_output,
                    weights_grad_attr |-> wg_attr, weights_grad_out |-> wg,
                    bias_grad_attr |-> bg_attr, bias_grad_out |-> bg,
                    weights_attr |-> wt, ret |-> out]
        /\ UNCHANGED <<layer, hostbuf, caller>>

(***************************************************************************)
(* DenseLayer::get_parameters, DenseLayer::get_gradients: the addresses    *)
(* of the members, named here by the member.                               *)
(***************************************************************************)
ParameterPtrs == <<"weights_", "bias_">>

\* GradientPtrs in the wrong order
GradientPtrs_BiasFirst == <<"bias_grad_", "weights_grad_">>

GradientPtrs == <<"weights_grad_", "bias_grad_">>

\* the Tensor a returned pointer points at
Deref(ptr) == layer[ptr]

get_parameters ==
    /\ last' = [op |-> "get_parameters", ret |-> ParameterPtrs]
    /\ UNCHANGED <<layer, attrs, ops, hostbuf, caller>>

get_gradients ==
    /\ last' = [op |-> "get_gradients", ret |-> GradientPtrs]
    /\ UNCHANGED <<layer, attrs, ops, hostbuf, caller>>

(***************************************************************************)
(* DenseLayer::initialize_parameters_norm                                  *)
(***************************************************************************)
\* An unsigned long long seed is the pair of its 32-bit halves.
Seeds == [hi : SeedHigh, lo : SeedLow]

\* std::mt19937 gen(seed): the first state word is seed mod 2^32, and the
\* rest of the state is computed from that word alone.
mt19937(seed) == seed.lo

\* The k-th value std::normal_distribution<T> draws from a generator that
\* was started in state gen: a function of T, gen and k.
NormalDraw(ty, gen, k) == [type |-> ty, gen |-> gen, k |-> k]

\* Memory after `for (i = 0; i < num_elem; ++i) static_cast<T*>(ptr)[i] = dist(gen)`:
\* element i covers the words i*WordsPerElem(T) + 1 .. (i+1)*WordsPerElem(T);
\* the words of the buffer it reaches are overwritten.
FillLoop(buf, ty, gen, num_elem) ==
    [w \in 1..Len(buf) |->
        IF w <= num_elem * WordsPerElem(ty)
        THEN [value |-> NormalDraw(ty, gen, (w - 1) \div WordsPerElem(ty)),
              part  |-> (w - 1) % WordsPerElem(ty)]
        ELSE buf[w]]

\* How the loop ends: it returns, or it runs past the end of the allocation
\* (undefined behaviour: the process may die there or carry on).
FillOutcomes(buf, ty, num_elem) ==
    IF num_elem * WordsPerElem(ty) > Len(buf) THEN {"ub_crash", "ub_overrun"} ELSE {"returned"}

\* initialize_parameters_norm with the host check made only after the fill
initialize_AssertAfterFill(seed) ==
    LET num_elem == get_num_elements(layer.weights_)
        gen      == mt19937(seed)
        dt       == layer.data_type_
        failed   == ~layer.weights_.on_host
    IN  /\ UNCHANGED <<layer, attrs, ops, caller>>
        /\ IF dt \in {"FLOAT", "DOUBLE"}
           THEN /\ hostbuf' = FillLoop(hostbuf, dt, gen, num_elem)
                /\ \E o \in FillOutcomes(hostbuf, dt, num_elem) :
                       last' = [op |-> "initialize_parameters_norm", seed |-> seed,
                                outcome |-> IF failed THEN "assert_failed" ELSE o]
           ELSE /\ hostbuf' = hostbuf
                /\ last' = [op |-> "initialize_parameters_norm", seed |-> seed,
                            outcome |-> IF failed THEN "assert_failed"
                                        ELSE IF dt = "INT32" THEN "fatal" ELSE "returned"]

initialize_parameters_norm(seed) ==
    LET num_elem == get_num_elements(layer.weights_)
        gen      == mt19937(seed)
        dt       == layer.data_type_
    IN  /\ UNCHANGED <<layer, attrs, ops, caller>>
        /\ IF ~layer.weights_.on_host
           THEN \* USHIONN_ASSERT fails (line 97)
                /\ hostbuf' = hostbuf
                /\ last' = [op |-> "initialize_parameters_norm", seed |-> seed,
                            outcome |-> "assert_failed"]
           ELSE IF dt \in {"FLOAT", "DOUBLE"}
           THEN /\ hostbuf' = FillLoop(hostbuf, dt, gen, num_elem)
                /\ \E o \in FillOutcomes(hostbuf, dt, num_elem) :
                       last' = [op |-> "initialize_parameters_norm", seed |-> seed,
                                outcome |-> o]
           ELSE IF dt = "INT32"
           THEN \* USHIONN_LOG_FATAL (line 115)
                /\ hostbuf' = hostbuf
                /\ last' = [op |-> "initialize_parameters_norm", seed |-> seed,
                            outcome |-> "fatal"]
           ELSE \* no branch taken
                /\ hostbuf' = hostbuf
                /\ last' = [op |-> "initialize_parameters_norm", seed |-> seed,
                            outcome |-> "returned"]

Next ==
    \/ add_forward_to_graph(caller.x)
    \/ \E fo \in FwdOutputRefs : add_backward_to_graph(caller.dy, caller.x, fo)
    \/ get_parameters
    \/ get_gradients
    \/ \E seed \in Seeds : initialize_parameters_norm(seed)

Spec == Init /\ [][Next]_vars

(***************************************************************************)
(* Properties.                                                             *)
(***************************************************************************)
in_features  == layer.weights_.shape[1]
out_features == layer.weights_.shape[2]

\* x has the form [batch..., in_features] (rank >= 2) and dy the form
\* [batch..., out_features] with the same batch dimensions.
ShapesMatchLayer(x, dy) ==
    /\ Len(attrs[x].dim) >= 2
    /\ Last(attrs[x].dim) = in_features
    /\ attrs[dy].dim = Front(attrs[x].dim) \o <<out_features>>

\* C1: under the matmul shape rule, the descriptor add_backward_to_graph
\* returns has the shape the forward input had before the call, whenever the
\* input is [batch..., in_features] and the output gradient
\* [batch..., out_features].
C1_InputGradHasInputShape ==
    [][\A fo \in FwdOutputRefs :
          (/\ add_backward_to_graph(caller.dy, caller.x, fo)
           /\ ShapesMatchLayer(caller.x, caller.dy))
          => DimIn(attrs', ops', last'.ret) = attrs[caller.x].dim]_vars

\* a backward call just returned on a rank-3, non-square input
C1_Witness ==
    /\ last.op = "add_backward_to_graph"
    /\ Len(Dim(last.ret)) = 3
    /\ Last(Dim(last.ret)) = in_features
    /\ attrs[caller.x].dim # Dim(last.ret)
    /\ in_features # out_features

\* C2: for an input [batch..., in_features], add_forward_to_graph returns a
\* virtual descriptor of shape [batch..., out_features], typed data_type_ and
\* named name_ + "_bias_add_out"; the matmul result is virtual, named
\* name_ + "_weights_matmul_out" and typed data_type_, whatever the weight's type.
C2_ForwardOutput ==
    [][(/\ add_forward_to_graph(caller.x)
        /\ Len(attrs[caller.x].dim) >= 2
        /\ Last(attrs[caller.x].dim) = in_features)
       => LET ret == attrs'[last'.ret]
              mm  == attrs'[last'.matmul_out]
          IN  /\ DimIn(attrs', ops', last'.ret) = Front(attrs[caller.x].dim) \o <<out_features>>
              /\ ret.is_virtual
              /\ ret.data_type = layer.data_type_
              /\ ret.name = layer.name_ \o "_bias_add_out"
              /\ mm.is_virtual
              /\ mm.data_type = layer.data_type_
              /\ mm.name = layer.name_ \o "_weights_matmul_out"]_vars

\* a forward call just returned on a layer whose weight type is not data_type_
C2_Witness ==
    /\ last.op = "add_forward_to_graph"
    /\ layer.weights_.data_type # layer.data_type_
    /\ Len(Dim(last.ret)) = 3
    /\ Last(Dim(last.ret)) = out_features
    /\ in_features # out_features

\* C3: add_forward_to_graph appends exactly two nodes, a matmul of the input
\* and a new weight attribute, then an ADD of that matmul's result and a new
\* bias attribute, and changes nothing else: the layer, the host buffer,
\* every attribute and every node already in the graph stay as they were.
C3_ForwardFrame ==
    [][add_forward_to_graph(caller.x)
       => LET n  == Len(ops)
              mm == ops'[n + 1]
              ad == ops'[n + 2]
          IN  /\ Len(ops') = n + 2
              /\ SubSeq(ops', 1, n) = ops
              /\ mm.kind = "matmul" /\ mm.a = caller.x
              /\ mm.b > Len(attrs) /\ mm.b <= Len(attrs')
              /\ attrs'[mm.b].name = layer.weights_.name
              /\ attrs'[mm.b].dim = layer.weights_.shape
              /\ ad.kind = "pointwise" /\ ad.mode = "ADD" /\ ad.a = mm.out
              /\ ad.b > Len(attrs) /\ ad.b <= Len(attrs') /\ ad.b # mm.b
              /\ attrs'[ad.b].name = layer.bias_.name
              /\ attrs'[ad.b].dim = layer.bias_.shape
              /\ ad.out = last'.ret
              /\ layer' = layer /\ hostbuf' = hostbuf
              /\ \A id \in 1..Len(attrs) : attrs'[id] = attrs[id]]_vars

\* a forward call just returned on a graph that already held a backward pass
C3_Witness ==
    /\ last.op = "add_forward_to_graph"
    /\ Len(ops) = 5
    /\ ops[1].kind = "matmul" /\ ops[2].kind = "reduction"
    /\ ops[5].kind = "pointwise"

\* C4: in every reachable state the descriptors get_gradients returns have
\* the shapes of those get_parameters returns, in the same order (weight,
\* bias), and each accessor returns the same two members on every call.
C4_GradientShapes ==
    /\ Len(GradientPtrs) = 2 /\ Len(ParameterPtrs) = 2
    /\ \A i \in 1..2 : Deref(GradientPtrs[i]).shape = Deref(ParameterPtrs[i]).shape
    /\ Deref(ParameterPtrs[1]).shape = <<in_features, out_features>>
    /\ Deref(ParameterPtrs[2]).shape = <<out_features>>
    /\ last.op = "get_parameters" => last.ret = <<"weights_", "bias_">>
    /\ last.op = "get_gradients" => last.ret = <<"weights_grad_", "bias_grad_">>

\* get_gradients just returned, after a forward and a backward pass and a
\* successful initialization, on a non-square weight
C4_Witness ==
    /\ last.op = "get_gradients"
    /\ Len(ops) >= 5
    /\ hostbuf # FreshBuffer(layer.weights_)
    /\ in_features # out_features

\* C5: initialize_parameters_norm on a host-resident INT32 weight tensor
\* ends in the fatal path and writes nothing, whatever data_type_ is.
C5_IntWeightsAlwaysFatal ==
    (/\ last.op = "initialize_parameters_norm"
     /\ layer.weights_.on_host
     /\ layer.weights_.data_type = "INT32")
    => (last.outcome = "fatal" /\ hostbuf = FreshBuffer(layer.weights_))

\* C6: initialize_parameters_norm on a weight tensor that is not on the host
\* fails its precondition and leaves the weight buffer, the layer's
\* descriptors and the graph as they were; it does not end as a success.
C6_NotOnHostFailsFirst ==
    [][\A seed \in Seeds :
          (initialize_parameters_norm(seed) /\ ~layer.weights_.on_host)
          => /\ last'.outcome = "assert_failed"
             /\ hostbuf' = hostbuf
             /\ layer' = layer
             /\ attrs' = attrs /\ ops' = ops]_vars

\* the initializer was just refused on a layer it would otherwise have filled
C6_Witness ==
    /\ last.op = "initialize_parameters_norm"
    /\ last.outcome = "assert_failed"
    /\ layer.data_type_ \in {"FLOAT", "DOUBLE"}
    /\ layer.data_type_ = layer.weights_.data_type

\* every word of the buffer holds its part of the element it belongs to,
\* elements 0 .. num_elements - 1 in linear order
WrittenInOrder(buf, ty, num_elem) ==
    /\ Len(buf) = num_elem * WordsPerElem(ty)
    /\ \A w \in 1..Len(buf) :
          /\ buf[w] # Unwritten
          /\ buf[w].value.type = ty
          /\ buf[w].value.k = (w - 1) \div WordsPerElem(ty)
          /\ buf[w].part = (w - 1) % WordsPerElem(ty)

\* C7: on a host-resident FLOAT or DOUBLE weight tensor (the layer configured
\* for the same type) initialize_parameters_norm writes exactly num_elements
\* values in linear order; a call with the seed of the call before leaves the
\* same buffer, and a call with a different seed leaves a different buffer.
C7_SeedDecidesBuffer ==
    [][\A seed \in Seeds :
          (/\ initialize_parameters_norm(seed)
           /\ layer.weights_.on_host
           /\ layer.weights_.data_type \in {"FLOAT", "DOUBLE"}
           /\ layer.data_type_ = layer.weights_.data_type)
          => /\ last'.outcome = "returned"
             /\ WrittenInOrder(hostbuf', layer.weights_.data_type,
                               get_num_elements(layer.weights_))
             /\ last.op = "initialize_parameters_norm"
                => /\ seed = last.seed => hostbuf' = hostbuf
                   /\ seed # last.seed => hostbuf' # hostbuf]_vars

\* C8: for an input [batch..., in_features] and an output gradient
\* [batch..., out_features], the weight-gradient node add_backward_to_graph
\* emits has shape [in_features, out_features] and the bias-gradient node
\* shape [out_features], under their names.
C8_GradientNodeShapes ==
    [][\A fo \in FwdOutputRefs :
          (/\ add_backward_to_graph(caller.dy, caller.x, fo)
           /\ ShapesMatchLayer(caller.x, caller.dy))
          => /\ attrs'[last'.weights_grad_out].name = layer.name_ \o "_weights_matmul_out_bwd"
             /\ attrs'[last'.bias_grad_out].name = layer.name_ \o "_bias_add_out_bwd"
             /\ DimIn(attrs', ops', last'.weights_grad_out) = <<in_features, out_features>>
             /\ DimIn(attrs', ops', last'.bias_grad_out) = <<out_features>>]_vars

\* the shape with its last two dimensions exchanged and the leading ones kept
LastTwoExchanged(d) == SubSeq(d, 1, Len(d) - 2) \o <<d[Len(d)], d[Len(d) - 1]>>

\* backward calls made so far with x as the forward input
BackwardCallsOn(x) ==
    Cardinality({i \in 1..Len(ops) :
                    /\ ops[i].kind = "matmul" /\ ops[i].a = x
                    /\ attrs[ops[i].out].name = layer.name_ \o "_weights_matmul_out_bwd"})

\* C9: add_backward_to_graph changes the forward-input descriptor in place:
\* after the call its last two dimensions are exchanged, the leading ones
\* kept, it is virtual and typed data_type_; so over calls on the same
\* reference it has the shape it was made with after an even number of
\* calls and the exchanged shape after an odd number, and a node already in
\* the graph that consumes it (the forward matmul) reads the exchanged shape.
C9_InputTransposedInPlace ==
    /\ [](attrs[caller.x].dim = IF BackwardCallsOn(caller.x) % 2 = 0
                                THEN caller.x_dim
                                ELSE LastTwoExchanged(caller.x_dim))
    /\ [][\A fo \in FwdOutputRefs :
             add_backward_to_graph(caller.dy, caller.x, fo)
             => /\ attrs'[caller.x].dim = LastTwoExchanged(attrs[caller.x].dim)
                /\ attrs'[caller.x].is_virtual
                /\ attrs'[caller.x].data_type = layer.data_type_
                /\ \A i \in 1..Len(ops) :
                      ops[i].a = caller.x
                      => /\ ops'[i] = ops[i]
                         /\ DimIn(attrs', ops', ops'[i].a)
                                = LastTwoExchanged(DimIn(attrs, ops, ops[i].a))]_vars

\* two backward calls after a forward call, on a rank-3 input that is not square
C9_Witness ==
    /\ last.op = "add_backward_to_graph"
    /\ BackwardCallsOn(caller.x) = 2
    /\ \E i \in 1..Len(ops) : ops[i].kind = "pointwise"
    /\ Len(caller.x_dim) = 3
    /\ caller.x_dim # LastTwoExchanged(caller.x_dim)
    /\ caller.x_dim[1] # caller.x_dim[3]

\* C10: add_backward_to_graph emits the weight-gradient matmul, the
\* bias-gradient reduction and the input-gradient matmul, in that order; their
\* operands are the output gradient, the forward input and a weight attribute
\* made in the call, never another node's result and never fwd_output; the
\* attributes made from weights_grad_ and bias_grad_ are the operand or the
\* result of no node of the graph.
C10_BackwardOperands ==
    [][\A fo \in FwdOutputRefs :
          add_backward_to_graph(caller.dy, caller.x, fo)
          => LET n     == Len(ops)
                 new   == {n + 1, n + 2, n + 3}
                 wt    == last'.weights_attr
                 used  == {ops'[i].a : i \in new} \cup {ops'[i].b : i \in new \ {n + 2}}
                 made  == {ops'[i].out : i \in new}
                 grads == {last'.weights_grad_attr, last'.bias_grad_attr}
             IN  /\ Len(ops') = n + 3 /\ SubSeq(ops', 1, n) = ops
                 /\ ops'[n + 1].kind = "matmul"
                 /\ <<ops'[n + 1].a, ops'[n + 1].b>> = <<caller.x, caller.dy>>
                 /\ attrs'[ops'[n + 1].out].name = layer.name_ \o "_weights_matmul_out_bwd"
                 /\ ops'[n + 2].kind = "reduction" /\ ops'[n + 2].mode = "ADD"
                 /\ ops'[n + 2].a = caller.dy
                 /\ attrs'[ops'[n + 2].out].name = layer.name_ \o "_bias_add_out_bwd"
                 /\ ops'[n + 3].kind = "matmul"
                 /\ <<ops'[n + 3].a, ops'[n + 3].b>> = <<caller.dy, wt>>
                 /\ ops'[n + 3].out = last'.ret
                 /\ attrs'[last'.ret].name = layer.name_ \o "_output_bwd"
                 /\ wt > Len(attrs) /\ attrs'[wt].name = layer.weights_.name
                 /\ used \subseteq {caller.dy, caller.x, wt}
                 /\ used \cap made = {}
                 /\ fo \notin used
                 /\ attrs'[last'.weights_grad_attr].name = layer.weights_grad_.name
                 /\ attrs'[last'.bias_grad_attr].name = layer.bias_grad_.name
                 /\ \A i \in 1..Len(ops') :
                       /\ ops'[i].out \notin grads
                       /\ ops'[i].a \notin grads
                       /\ ops'[i].b \notin grads]_vars

\* a backward call just returned that was handed the forward pass's output
C10_Witness ==
    /\ last.op = "add_backward_to_graph"
    /\ last.fwd_output # NullRef
    /\ attrs[last.fwd_output].name = layer.name_ \o "_bias_add_out"
    /\ Len(ops) = 5

=============================================================================
